---- MODULE Spec2Model ----
(***************************************************************************)
(* LLM-Chat: the FastAPI backend (src/app.py), the Gradio client           *)
(* (src/UI.py) and the history wrapper and store the repository's tests    *)
(* run the backend against (src/tests/test_chat.py).                       *)
(*                                                                         *)
(* A text is a sequence of symbols, so that stripping and concatenation    *)
(* are computed.  One chat request is a process: the handler returns the   *)
(* streaming response, then the generator gen() runs one step per chunk.   *)
(***************************************************************************)
EXTENDS Integers, Sequences, FiniteSets, TLC

\* Number of POST /chat requests issued in one behaviour.
MaxRequests == 2

\* Number of turns the Chatbot of the client shows.
MaxTurns == 2

\* Number of sessions created in one behaviour.
MaxSessions == 1

\* Number of messages of a stored log the client is given to load.
MaxLog == 4

------------------------------------------------------------------------------
\* Texts

Whitespace == {" "}

RECURSIVE lstrip(_)
lstrip(s) == IF s # <<>> /\ Head(s) \in Whitespace THEN lstrip(Tail(s)) ELSE s

RECURSIVE rstrip(_)
rstrip(s) ==
    IF s # <<>> /\ s[Len(s)] \in Whitespace
    THEN rstrip(SubSeq(s, 1, Len(s) - 1))
    ELSE s

\* str.strip()
strip(s) == rstrip(lstrip(s))

\* "".join(parts)
RECURSIVE Concat(_)
Concat(parts) == IF parts = <<>> THEN <<>> ELSE Head(parts) \o Concat(Tail(parts))

IsPrefix(s, t) == Len(s) <= Len(t) /\ SubSeq(t, 1, Len(s)) = s

------------------------------------------------------------------------------
\* Inputs

\* The values uuid.uuid4() returns, in the order it returns them: identifiers
\* are opaque, each call returns one never returned before.
UuidSequence == << <<"u1">>, <<"u2">>, <<"u3">> >>

UUIDs == {UuidSequence[i] : i \in 1 .. Len(UuidSequence)}

\* The key an empty session id falls back to.
DefaultSid == <<"default">>

\* The keys of the history store.
SessionIds == UUIDs \cup {DefaultSid}

\* user_message values a caller sends.
RawMessages == {<<>>, <<" ">>, <<" ", "hi", " ">>}

\* The values the dropdown of the client can hold; <<>> is None.
NoSelection == <<>>

\* Exceptions the provider raises.
ProviderErrors == {[kind |-> "RuntimeError", message |-> "boom"]}

\* The chunks the underlying chain streams for one input.
ProviderScript(text) == << <<"HEL">>, <<"LO: ">>, text >>

------------------------------------------------------------------------------
VARIABLES
    sessions,   \* the chat_sessions table: the registered session ids
    issued,     \* the ids create_new_session has returned so far
    store,      \* the message store: session id -> sequence of messages
    reqs,       \* the chat requests: request number -> its record; wiped tells
                \* that the session was cleared after the request stored its input
    nreq,       \* the number of chat requests received
    del,        \* the DELETE handler in flight
    ui,         \* the client: dropdown value, Chatbot value, generator state
    appended    \* per session, what was appended since its last clear

vars == <<sessions, issued, store, reqs, nreq, del, ui, appended>>

Requests == 1 .. MaxRequests

------------------------------------------------------------------------------
\* The history store and the wrapper around the chain (src/tests/test_chat.py)

HumanMessage(content, r) == [type |-> "human", content |-> content, req |-> r]

AIMessage(content, r) == [type |-> "ai", content |-> content, req |-> r]

\* FakeSQLChatMessageHistory.__init__: session_id or "default"
HistoryKey(session_id) == IF session_id = <<>> THEN DefaultSid ELSE session_id

aget_messages(st, session_id) == st[HistoryKey(session_id)]

\* Faulty variant: the message is added to the log of every session.
aadd_message_everywhere(st, session_id, message) ==
    [k \in DOMAIN st |-> Append(st[k], message)]

\* Faulty variant: the message replaces the log.
aadd_message_replacing(st, session_id, message) ==
    [st EXCEPT ![HistoryKey(session_id)] = <<message>>]

\* Faulty variant: the message is put in front of the log.
aadd_message_front(st, session_id, message) ==
    [st EXCEPT ![HistoryKey(session_id)] = <<message>> \o @]

aadd_message(st, session_id, message) ==
    [st EXCEPT ![HistoryKey(session_id)] = Append(@, message)]

\* Faulty variant: the logs of all sessions are cleared.
aclear_all(st, session_id) == [k \in DOMAIN st |-> <<>>]

aclear(st, session_id) == [st EXCEPT ![HistoryKey(session_id)] = <<>>]

------------------------------------------------------------------------------
\* The backend (src/app.py)

\* Faulty variant: the first branch assigns the role of the second.
RoleOfCopied(m) ==
    CASE m.type = "ai" -> "user"
      [] m.type = "human" -> "user"
      [] m.type = "system" -> "system"
      [] OTHER -> "unknown"

RoleOf(m) ==
    CASE m.type = "ai" -> "assistant"
      [] m.type = "human" -> "user"
      [] m.type = "system" -> "system"
      [] OTHER -> "unknown"

\* GET /session/{session_id}/history: the messages of the response
get_history(st, session_id) ==
    LET messages_raw == aget_messages(st, session_id)
    IN  [i \in 1 .. Len(messages_raw) |->
            [role |-> RoleOf(messages_raw[i]), content |-> messages_raw[i].content]]

\* Faulty variant: the test is made on the message as received.
ChatAcceptsUnstripped(user_message) == user_message # <<>>

\* chat: the test of line 133 on the stripped message
ChatAccepts(user_message) == strip(user_message) # <<>>

NoRequest ==
    [state |-> "none", status |-> 0, sid |-> <<>>, user_msg |-> <<>>, n |-> 0,
     full_response |-> <<>>, body |-> <<>>, failed |-> FALSE, wiped |-> FALSE]

\* chat, accepted: sid, user_msg and the generator not yet started
ReceivedRequest(session_id, user_message) ==
    [NoRequest EXCEPT !.state = "received", !.status = 200, !.sid = strip(session_id),
                      !.user_msg = strip(user_message)]

\* chat, HTTPException(400): nothing is built
RejectedRequest(session_id, user_message) ==
    [NoRequest EXCEPT !.state = "rejected", !.status = 400, !.sid = strip(session_id)]

\* Faulty variant: the kind of the error is left out.
ProviderErrorTextNoKind(e) == <<"\n\n", "[ERROR] Provider failed: ", e.message>>

\* f"\n\n[ERROR] Provider failed: {type(e).__name__}: {e}"
ProviderErrorText(e) == <<"\n\n", "[ERROR] Provider failed: ", e.kind, ": ", e.message>>

InFlight(r) == reqs[r].state \in {"received", "streaming"}

\* The session ids a caller can name: the fallback key and the ids handed out.
KnownIds == issued \cup {DefaultSid}

\* session_id values of a POST /chat body: padded, or empty
RawSessionIds == issued \cup {<<" ">> \o k \o <<" ">> : k \in issued} \cup {<<>>}

\* The client between two handlers: the dropdown's value, the Chatbot's value,
\* and whether the last handler call was a send that changed nothing.
IdleClient(selected, chat, ignored) ==
    [ui EXCEPT !.pc = "idle", !.selected = selected, !.chat = chat,
               !.ignored = ignored, !.local = <<>>, !.req = 0,
               !.combined = <<>>, !.read = 0]

\* The client when the page is built: nothing selected, no choices, an empty
\* Chatbot and status; raised tells that the last handler ended by an
\* exception, delete_status and list_status are the statuses of the last
\* answers to its DELETE and to its GET /sessions.
StartClient ==
    [pc |-> "idle", selected |-> NoSelection, chat |-> <<>>, ignored |-> FALSE,
     local |-> <<>>, req |-> 0, combined |-> <<>>, read |-> 0,
     choices |-> <<>>, status |-> "", loaded |-> FALSE, raised |-> FALSE,
     delete_status |-> 0, list_status |-> 0]

NoDelete == [pc |-> "idle", sid |-> <<>>, quiet |-> TRUE]

Init ==
    /\ sessions = {}
    /\ issued = {}
    /\ store = [k \in SessionIds |-> <<>>]
    /\ reqs = [r \in Requests |-> NoRequest]
    /\ nreq = 0
    /\ del = NoDelete
    /\ ui = StartClient
    /\ appended = [k \in SessionIds |-> <<>>]

\* Faulty variant: the same identifier is generated again.
uuid4_repeated(returned) == UuidSequence[1]

\* str(uuid.uuid4())
uuid4(returned) == UuidSequence[Cardinality(returned) + 1]

\* Faulty variant: creating a session empties the histories.
create_new_session_clearing ==
    /\ Cardinality(issued) < Len(UuidSequence)
    /\ sessions' = sessions \cup {uuid4(issued)}
    /\ issued' = issued \cup {uuid4(issued)}
    /\ store' = [k \in SessionIds |-> <<>>]
    /\ UNCHANGED <<reqs, nreq, del, ui, appended>>

\* POST /session
create_new_session ==
    /\ Cardinality(issued) < Len(UuidSequence)
    /\ \E new_session_id \in {uuid4(issued)} :
          /\ sessions' = sessions \cup {new_session_id}
          /\ issued' = issued \cup {new_session_id}
    /\ UNCHANGED <<store, reqs, nreq, del, ui, appended>>

\* GET /sessions: the response
ListResponse(registry) == [status |-> 200, sessions |-> registry]

\* GET /sessions: a read, answered ListResponse(sessions)
list_all_sessions ==
    UNCHANGED vars

\* GET /session/{session_id}/history: the response
HistoryOut(st, session_id) ==
    [status |-> 200, session_id |-> session_id, messages |-> get_history(st, session_id)]

\* GET /session/{session_id}/history: a read, answered HistoryOut(store, session_id)
GetHistory ==
    \E session_id \in KnownIds : UNCHANGED vars

\* POST /chat up to the return of the StreamingResponse, or the 400
ChatHandler(session_id, user_message) ==
    /\ nreq < MaxRequests
    /\ nreq' = nreq + 1
    /\ reqs' = [reqs EXCEPT ![nreq + 1] =
                    IF ChatAccepts(user_message)
                    THEN ReceivedRequest(session_id, user_message)
                    ELSE RejectedRequest(session_id, user_message)]
    /\ del' = IF /\ del.pc = "cleared"
                 /\ ChatAccepts(user_message)
                 /\ HistoryKey(strip(session_id)) = del.sid
              THEN [del EXCEPT !.quiet = FALSE]
              ELSE del
    /\ UNCHANGED <<sessions, issued, store, appended>>

Chat ==
    \E session_id \in RawSessionIds, user_message \in RawMessages :
        /\ ChatHandler(session_id, user_message)
        /\ UNCHANGED ui

\* Faulty variant: the input is not stored.
StoreInputSkipped(st, session_id, input, r) == st

\* the wrapper, before the stream: await history.aadd_message(HumanMessage(...))
StoreInput(st, session_id, input, r) ==
    aadd_message(st, session_id, HumanMessage(input, r))

\* Faulty variant: the reply is not stored.
StoreReplySkipped(st, session_id, full_response, r) == st

\* the wrapper, after the stream: await history.aadd_message(AIMessage(...))
StoreReply(st, session_id, full_response, r) ==
    aadd_message(st, session_id, AIMessage(full_response, r))

\* gen: the first pull starts the wrapper, which stores the user's message
GenStart(r) ==
    /\ reqs[r].state = "received"
    /\ store' = StoreInput(store, reqs[r].sid, reqs[r].user_msg, r)
    /\ appended' = [appended EXCEPT ![HistoryKey(reqs[r].sid)] =
                        Append(@, [role |-> "user", content |-> reqs[r].user_msg])]
    /\ reqs' = [reqs EXCEPT ![r].state = "streaming"]
    /\ UNCHANGED <<sessions, issued, nreq, del, ui>>

\* Faulty variant: the newest fragment is put first.
RelayNewestFirst(body, s) == IF s = <<>> THEN body ELSE <<s>> \o body

\* gen: what is yielded for one chunk of the stream
Relay(body, s) == IF s = <<>> THEN body ELSE Append(body, s)

\* one chunk, which a provider may send without content: the wrapper
\* accumulates it, gen relays it unless it is empty
GenChunk(r) ==
    /\ reqs[r].state = "streaming"
    /\ reqs[r].n < Len(ProviderScript(reqs[r].user_msg))
    /\ \E chunk \in {ProviderScript(reqs[r].user_msg)[reqs[r].n + 1], <<>>} :
          reqs' = [reqs EXCEPT ![r].n = @ + 1,
                               ![r].full_response = @ \o chunk,
                               ![r].body = Relay(@, chunk)]
    /\ UNCHANGED <<sessions, issued, store, nreq, del, ui, appended>>

\* the stream is exhausted: the wrapper stores the assistant's reply
GenFinish(r) ==
    /\ reqs[r].state = "streaming"
    /\ reqs[r].n = Len(ProviderScript(reqs[r].user_msg))
    /\ store' = StoreReply(store, reqs[r].sid, reqs[r].full_response, r)
    /\ appended' = [appended EXCEPT ![HistoryKey(reqs[r].sid)] =
                        Append(@, [role |-> "assistant",
                                   content |-> reqs[r].full_response])]
    /\ reqs' = [reqs EXCEPT ![r].state = "done"]
    /\ UNCHANGED <<sessions, issued, nreq, del, ui>>

\* the provider raises: the wrapper is left by the exception, gen yields the text
GenFail(r) ==
    /\ reqs[r].state = "streaming"
    /\ \E e \in ProviderErrors :
          reqs' = [reqs EXCEPT ![r].state = "done", ![r].failed = TRUE,
                               ![r].body = Append(@, ProviderErrorText(e))]
    /\ UNCHANGED <<sessions, issued, store, nreq, del, ui, appended>>

\* DELETE /session/{session_id}, up to the end of aclear()
DeleteClear ==
    /\ del.pc = "idle"
    /\ \E session_id \in KnownIds :
          /\ store' = aclear(store, session_id)
          /\ appended' = [appended EXCEPT ![HistoryKey(session_id)] = <<>>]
          /\ del' = [pc |-> "cleared", sid |-> session_id,
                     quiet |-> \A r \in Requests :
                                  InFlight(r) => HistoryKey(reqs[r].sid) # session_id]
          /\ reqs' = [r \in Requests |->
                        IF reqs[r].state = "streaming"
                           /\ HistoryKey(reqs[r].sid) = HistoryKey(session_id)
                        THEN [reqs[r] EXCEPT !.wiped = TRUE]
                        ELSE reqs[r]]
    /\ UNCHANGED <<sessions, issued, nreq, ui>>

\* Faulty variant: an unknown session is answered 404.
DeleteResponseNotFound(registry, session_id) ==
    IF session_id \in registry
    THEN [status |-> 200, body |-> "cleared", session_id |-> session_id]
    ELSE [status |-> 404, body |-> "not found", session_id |-> session_id]

\* clear_session_history: the body of the response
DeleteResponse(registry, session_id) ==
    [status |-> 200, body |-> "cleared", session_id |-> session_id]

\* DELETE /session/{session_id}, the row of the registry; the handler then
\* answers DeleteResponse(sessions, del.sid)
DeleteRegistry ==
    /\ del.pc = "cleared"
    /\ sessions' = sessions \ {del.sid}
    /\ del' = NoDelete
    /\ UNCHANGED <<issued, store, reqs, nreq, ui, appended>>

------------------------------------------------------------------------------
\* The client (src/UI.py)

\* x or y, for a text
OrElse(x, y) == IF x = <<>> THEN y ELSE x

\* handle_message_send: the test of line 65 on the stripped message
SendAccepts(user_msg) == strip(OrElse(user_msg, <<>>)) # <<>>

\* f"[ERROR] Backend returned {status}: {text}"
BackendErrorText(status) == <<"[ERROR] Backend returned ", status>>

\* f"[ERROR] Network/client error: {e}"
NetworkErrorText == <<"[ERROR] Network/client error: ">>

\* chat_history[-1][1] = full_response
SetLastReply(chat_history, full_response) ==
    [chat_history EXCEPT ![Len(chat_history)] = <<@[1], full_response>>]

\* (chat_history or []) + [[user_msg, ""]]
AddUserBubble(chat_history, user_msg) == Append(chat_history, <<user_msg, <<>>>>)

\* get_streaming_response: one more chunk of the body
Accumulate(combined, chunk) == combined \o chunk

\* handle_message_send up to the first wait for the backend
HandleMessageSend(user_msg) ==
    /\ ui.pc = "idle"
    /\ IF ~SendAccepts(user_msg)
       THEN \* yield gr.update(); return
            /\ ui' = [ui EXCEPT !.ignored = TRUE]
            /\ UNCHANGED <<sessions, issued, store, reqs, nreq, del, appended>>
       ELSE LET current_session_id == strip(OrElse(ui.selected, DefaultSid))
                msg == strip(OrElse(user_msg, <<>>))
                chat_history == AddUserBubble(ui.chat, msg)
            IN  \/ /\ ChatHandler(OrElse(current_session_id, DefaultSid), msg)
                   /\ ui' = IF reqs'[nreq + 1].status = 200
                            THEN [ui EXCEPT !.pc = "streaming", !.ignored = FALSE,
                                            !.local = chat_history, !.req = nreq + 1]
                            ELSE IdleClient(ui.selected,
                                     SetLastReply(chat_history,
                                         BackendErrorText(reqs'[nreq + 1].status)),
                                     FALSE)
                \/ \* the backend cannot be reached
                   /\ ui' = IdleClient(ui.selected,
                                SetLastReply(chat_history, NetworkErrorText), FALSE)
                   /\ UNCHANGED <<sessions, issued, store, reqs, nreq, del, appended>>

\* one chunk of the body arrives: the bubble shows the text so far
ReceiveChunk ==
    /\ ui.pc = "streaming"
    /\ ui.read < Len(reqs[ui.req].body)
    /\ LET combined == Accumulate(ui.combined, reqs[ui.req].body[ui.read + 1])
           chat_history == SetLastReply(ui.local, combined)
       IN  ui' = [ui EXCEPT !.combined = combined, !.read = @ + 1,
                            !.local = chat_history, !.chat = chat_history]
    /\ UNCHANGED <<sessions, issued, store, reqs, nreq, del, appended>>

\* the body ends: both generators return
StreamEnd ==
    /\ ui.pc = "streaming"
    /\ reqs[ui.req].state = "done"
    /\ ui.read = Len(reqs[ui.req].body)
    /\ ui' = IdleClient(ui.selected, ui.chat, FALSE)
    /\ UNCHANGED <<sessions, issued, store, reqs, nreq, del, appended>>

\* the connection breaks while the body is read
StreamError ==
    /\ ui.pc = "streaming"
    /\ ui' = IdleClient(ui.selected, SetLastReply(ui.local, NetworkErrorText), FALSE)
    /\ UNCHANGED <<sessions, issued, store, reqs, nreq, del, appended>>

------------------------------------------------------------------------------
\* The client's session handlers (src/UI.py).  A handler runs as one step,
\* the backend calls it makes included; a call that fails is a choice of the
\* step.

Range(f) == {f[i] : i \in DOMAIN f}

\* The orders in which a SELECT without ORDER BY can return the rows.
SessionLists(registry) ==
    {l \in [1 .. Cardinality(registry) -> registry] : Range(l) = registry}

\* The answer of a backend that cannot be reached or that fails.
Unavailable == [status |-> 503]

\* What GET /sessions can answer to the client.
ListAnswers(registry) ==
    {[status |-> 200, sessions |-> l] : l \in SessionLists(registry)}
        \cup {Unavailable}

\* Faulty variant: no fallback when the call fails.
get_available_sessions_or_none(response) ==
    IF response.status = 200 THEN response.sessions ELSE <<>>

\* get_available_sessions: the list of the answer, or ["default"]
get_available_sessions(response) ==
    IF response.status = 200 THEN response.sessions ELSE <<DefaultSid>>

\* The reading of the scan before any user entry, and after one.
NoUser == [some |-> FALSE, content |-> <<>>]

SomeUser(content) == [some |-> TRUE, content |-> content]

\* load_chat_history: the loop over msgs, then the trailing user entry
RECURSIVE ScanTurns(_, _, _)
ScanTurns(msgs, last_user, chat_pairs) ==
    IF msgs = <<>>
    THEN IF last_user.some
         THEN Append(chat_pairs, <<last_user.content, <<>>>>)
         ELSE chat_pairs
    ELSE LET m == Head(msgs)
         IN  CASE m.role = "user" ->
                    ScanTurns(Tail(msgs), SomeUser(m.content), chat_pairs)
               [] m.role = "assistant" ->
                    ScanTurns(Tail(msgs), NoUser,
                              Append(chat_pairs, <<last_user.content, m.content>>))
               [] OTHER ->
                    ScanTurns(Tail(msgs), last_user, chat_pairs)

\* load_chat_history, given the answer of GET /session/{id}/history
load_chat_history(session_id, response) ==
    IF strip(OrElse(session_id, <<>>)) = <<>> THEN <<>>
    ELSE IF response.status # 200 THEN <<>>
    ELSE ScanTurns(response.messages, NoUser, <<>>)

\* The requests a DELETE of session_id finds streaming on it.
MarkWiped(session_id) ==
    [r \in Requests |->
        IF reqs[r].state = "streaming"
           /\ HistoryKey(reqs[r].sid) = HistoryKey(session_id)
        THEN [reqs[r] EXCEPT !.wiped = TRUE]
        ELSE reqs[r]]

\* A handler ends by an exception: its outputs are not applied.
Raised == [ui EXCEPT !.raised = TRUE]

\* init_sessions, run when the page loads
init_sessions ==
    /\ ui.pc = "idle"
    /\ ~ui.loaded
    /\ \E response \in ListAnswers(sessions) :
          LET listed == get_available_sessions(response)
          IN  IF listed # <<>>
              THEN /\ ui' = [ui EXCEPT !.choices = listed, !.selected = listed[1],
                                       !.chat = <<>>, !.status = "",
                                       !.loaded = TRUE, !.raised = FALSE,
                                       !.list_status = response.status]
                   /\ UNCHANGED <<sessions, issued>>
              ELSE \/ /\ Cardinality(issued) < Len(UuidSequence)
                      /\ LET new_session_id == uuid4(issued)
                         IN  /\ sessions' = sessions \cup {new_session_id}
                             /\ issued' = issued \cup {new_session_id}
                             /\ ui' = [ui EXCEPT !.choices = <<new_session_id>>,
                                                 !.selected = new_session_id,
                                                 !.chat = <<>>, !.status = "",
                                                 !.loaded = TRUE, !.raised = FALSE,
                                                 !.list_status = response.status]
                   \/ \* create_session raises
                      /\ ui' = [Raised EXCEPT !.list_status = response.status]
                      /\ UNCHANGED <<sessions, issued>>
    /\ UNCHANGED <<store, reqs, nreq, del, appended>>

\* handle_new_chat_click
handle_new_chat_click ==
    /\ ui.pc = "idle"
    /\ \/ /\ Cardinality(issued) < Len(UuidSequence)
          /\ LET new_session_id == uuid4(issued)
                 registry == sessions \cup {new_session_id}
             IN  /\ sessions' = registry
                 /\ issued' = issued \cup {new_session_id}
                 /\ \E response \in ListAnswers(registry) :
                       LET listed == get_available_sessions(response)
                           choices == IF new_session_id \in Range(listed)
                                      THEN listed
                                      ELSE Append(listed, new_session_id)
                       IN  ui' = [ui EXCEPT !.choices = choices,
                                            !.selected = new_session_id,
                                            !.chat = <<>>, !.status = "Created",
                                            !.raised = FALSE,
                                            !.list_status = response.status]
       \/ \* create_session raises
          /\ ui' = Raised
          /\ UNCHANGED <<sessions, issued>>
    /\ UNCHANGED <<store, reqs, nreq, del, appended>>

\* handle_session_change, the user having picked selected_session_id
handle_session_change(selected_session_id) ==
    /\ ui.pc = "idle"
    /\ selected_session_id \in Range(ui.choices)
    /\ \E response \in {HistoryOut(store, strip(selected_session_id)), Unavailable} :
          LET chat_history_pairs == load_chat_history(selected_session_id, response)
          IN  ui' = [ui EXCEPT !.selected = selected_session_id,
                               !.chat = chat_history_pairs,
                               !.status = IF chat_history_pairs # <<>>
                                          THEN "Loaded" ELSE "No history",
                               !.raised = FALSE]
    /\ UNCHANGED <<sessions, issued, store, reqs, nreq, del, appended>>

\* [c for c in choices if c != session_to_be_deleted]
Without(choices, session_to_be_deleted) ==
    SelectSeq(choices, LAMBDA c : c # session_to_be_deleted)

\* handle_session_deletion
handle_session_deletion ==
    /\ ui.pc = "idle"
    /\ LET session_to_be_deleted == strip(OrElse(ui.selected, <<>>))
           choices == Without(ui.choices, session_to_be_deleted)
       IN  IF session_to_be_deleted = <<>>
           THEN /\ ui' = [ui EXCEPT !.status = "Select a session first.",
                                    !.raised = FALSE, !.delete_status = 0]
                /\ UNCHANGED <<sessions, issued, store, reqs, appended>>
           ELSE \/ \* httpx.delete raises: the backend cannot be reached
                   /\ ui' = [Raised EXCEPT !.delete_status = 0]
                   /\ UNCHANGED <<sessions, issued, store, reqs, appended>>
                \/ \E status \in {200, 500} :
                      LET registry == IF status = 200
                                      THEN sessions \ {session_to_be_deleted}
                                      ELSE sessions
                      IN  /\ store' = IF status = 200
                                      THEN aclear(store, session_to_be_deleted)
                                      ELSE store
                          /\ appended' = IF status = 200
                                         THEN [appended EXCEPT
                                                 ![HistoryKey(session_to_be_deleted)] = <<>>]
                                         ELSE appended
                          /\ reqs' = IF status = 200
                                     THEN MarkWiped(session_to_be_deleted)
                                     ELSE reqs
                          /\ IF choices = <<>>
                             THEN \/ /\ Cardinality(issued) < Len(UuidSequence)
                                     /\ LET new_sid == uuid4(issued)
                                        IN  /\ sessions' = registry \cup {new_sid}
                                            /\ issued' = issued \cup {new_sid}
                                            /\ ui' = [ui EXCEPT
                                                 !.chat = <<>>,
                                                 !.choices = <<new_sid>>,
                                                 !.selected = new_sid,
                                                 !.status = "Deleted. Started a new chat.",
                                                 !.raised = FALSE,
                                                 !.delete_status = status]
                                  \/ \* create_session raises
                                     /\ sessions' = registry
                                     /\ ui' = [Raised EXCEPT !.delete_status = status]
                                     /\ UNCHANGED issued
                             ELSE /\ sessions' = registry
                                  /\ ui' = [ui EXCEPT
                                         !.chat = <<>>,
                                         !.choices = choices,
                                         !.selected = choices[1],
                                         !.status = IF status = 200
                                                    THEN "Deleted."
                                                    ELSE "Delete failed",
                                         !.raised = FALSE,
                                         !.delete_status = status]
                                  /\ UNCHANGED issued
    /\ UNCHANGED <<nreq, del>>

------------------------------------------------------------------------------
NoneInFlight == \A r \in Requests : ~InFlight(r)

\* The backend under direct calls, chat requests running concurrently.
Next ==
    \/ (Cardinality(issued) < MaxSessions /\ create_new_session)
    \/ list_all_sessions
    \/ GetHistory
    \/ Chat
    \/ \E r \in Requests : GenStart(r)
    \/ \E r \in Requests : GenChunk(r)
    \/ \E r \in Requests : GenFinish(r)
    \/ \E r \in Requests : GenFail(r)
    \/ DeleteClear
    \/ DeleteRegistry

Spec == Init /\ [][Next]_vars

\* The client and the backend behind it: one chat request at a time, sent by
\* the client or by a direct call.
NextClient ==
    \/ (NoneInFlight /\ Chat)
    \/ \E user_msg \in RawMessages :
          (NoneInFlight /\ Len(ui.chat) < MaxTurns /\ HandleMessageSend(user_msg))
    \/ ReceiveChunk
    \/ StreamEnd
    \/ StreamError
    \/ \E r \in Requests : GenStart(r)
    \/ \E r \in Requests : GenChunk(r)
    \/ \E r \in Requests : GenFinish(r)
    \/ \E r \in Requests : GenFail(r)

SpecClient == Init /\ [][NextClient]_vars

\* The session handlers of the client, and direct calls of the registry's
\* endpoints beside them.
NextSessions ==
    \/ create_new_session
    \/ list_all_sessions
    \/ GetHistory
    \/ DeleteClear
    \/ DeleteRegistry
    \/ init_sessions
    \/ handle_new_chat_click
    \/ \E selected_session_id \in SessionIds :
          handle_session_change(selected_session_id)
    \/ handle_session_deletion

SpecSessions == Init /\ [][NextSessions]_vars

\* The messages of the logs given to load: two questions and a reply, stored
\* by requests that are over.
LoggedMessages ==
    {HumanMessage(<<"q1">>, 0), HumanMessage(<<"q2">>, 0), AIMessage(<<"a1">>, 0)}

Logs == UNION {[1 .. n -> LoggedMessages] : n \in 0 .. MaxLog}

\* A client whose list call failed at startup, before a stored log of the
\* placeholder session.
InitTurns ==
    /\ sessions = {}
    /\ issued = {}
    /\ \E log \in Logs :
          /\ store = [k \in SessionIds |-> IF k = DefaultSid THEN log ELSE <<>>]
          /\ appended = [k \in SessionIds |->
                            IF k = DefaultSid
                            THEN [i \in 1 .. Len(log) |->
                                     [role |-> RoleOf(log[i]), content |-> log[i].content]]
                            ELSE <<>>]
    /\ reqs = [r \in Requests |-> NoRequest]
    /\ nreq = 0
    /\ del = NoDelete
    /\ ui = [StartClient EXCEPT !.choices = <<DefaultSid>>, !.selected = DefaultSid,
                                !.loaded = TRUE, !.list_status = 503]

\* The client loading the log of a session.
NextTurns ==
    \E selected_session_id \in SessionIds :
        handle_session_change(selected_session_id)

SpecTurns == InitTurns /\ [][NextTurns]_vars

------------------------------------------------------------------------------
\* Properties

\* The key of the history a request writes to.
KeyOf(r) == HistoryKey(reqs[r].sid)

\* The step that ends request r by a provider failure.
FailsNow(r) ==
    reqs[r].state = "streaming" /\ reqs'[r].state = "done" /\ reqs'[r].failed

\* The step that ends request r after the whole stream.
CompletesNow(r) ==
    reqs[r].state = "streaming" /\ reqs'[r].state = "done" /\ ~reqs'[r].failed

\* The step of a DELETE that clears the history, and the one that returns.
ClearsNow == del.pc = "idle" /\ del'.pc = "cleared"

ReturnsNow == del.pc = "cleared" /\ del'.pc = "idle"

\* C1: whatever was appended to a session since it was last cleared is what
\* GET /session/S/history returns: same order, same roles, same contents.
RoundTrip ==
    \A k \in SessionIds : HistoryOut(store, k).messages = appended[k]

\* C1: a session read back after two exchanges, the second one failed.
RoundTripWitness ==
    \E k \in SessionIds :
        /\ Len(appended[k]) = 3
        /\ get_history(store, k)[1].role = "user"
        /\ get_history(store, k)[2].role = "assistant"
        /\ get_history(store, k)[3].role = "user"

\* C2: in every reachable state, an assistant reply in a history has the user
\* message of the same request at an earlier position.
UserBeforeAssistant ==
    \A k \in SessionIds : \A i \in 1 .. Len(store[k]) :
        store[k][i].type = "ai" =>
            \E j \in 1 .. (i - 1) :
                store[k][j].type = "human" /\ store[k][j].req = store[k][i].req

\* C3: a POST /chat with an empty or whitespace-only message is answered 400,
\* changes no history and no registry row and never starts its generator; a
\* send of such a message in the client calls nothing and shows nothing new.
EmptyInputRejected ==
    [][ /\ \A session_id \in RawSessionIds, user_message \in RawMessages :
             (strip(user_message) = <<>> /\ ChatHandler(session_id, user_message))
                 => /\ reqs'[nreq + 1].status = 400
                    /\ reqs'[nreq + 1].state = "rejected"
                    /\ store' = store
                    /\ sessions' = sessions
        /\ \A r \in Requests :
             reqs[r].state = "rejected" => reqs'[r] = reqs[r]
        /\ \A user_msg \in RawMessages :
             (strip(user_msg) = <<>> /\ HandleMessageSend(user_msg))
                 => /\ nreq' = nreq
                    /\ reqs' = reqs
                    /\ store' = store
                    /\ ui'.chat = ui.chat
                    /\ ui'.pc = "idle"
      ]_vars

\* C3: a request was rejected and a send was ignored while a conversation
\* was stored and shown.
EmptyInputWitness ==
    /\ \E r \in Requests : reqs[r].state = "rejected" /\ reqs[r].status = 400
    /\ ui.ignored
    /\ ui.chat # <<>>
    /\ store[DefaultSid] # <<>>

\* The user's message of request r is in the history st of its session, and
\* nothing of that request comes before it.
QuestionFirst(r, st) ==
    \E i \in 1 .. Len(st[KeyOf(r)]) :
        /\ st[KeyOf(r)][i] = HumanMessage(reqs[r].user_msg, r)
        /\ \A j \in 1 .. (i - 1) : st[KeyOf(r)][j].req # r

\* C4 as stated: when the provider fails before any chunk, the history of the
\* session holds the user's message once the request has ended.
QuestionPersistsAlways ==
    [][\A r \in Requests :
          (FailsNow(r) /\ reqs[r].n = 0) => QuestionFirst(r, store')]_vars

\* C4, amended: the same, unless the session was deleted while the request ran.
QuestionPersists ==
    [][\A r \in Requests :
          (FailsNow(r) /\ reqs[r].n = 0 /\ ~reqs[r].wiped)
              => QuestionFirst(r, store')]_vars

\* C4: a request that failed before any chunk, its question in the history.
QuestionPersistsWitness ==
    \E r \in Requests :
        /\ reqs[r].state = "done" /\ reqs[r].failed /\ reqs[r].n = 0
        /\ ~reqs[r].wiped
        /\ store[KeyOf(r)] = <<HumanMessage(reqs[r].user_msg, r)>>

\* C5: after a provider failure the history holds an assistant message of the
\* request whose content is what was streamed, the "[ERROR] ..." text last.
FailureTextRecorded ==
    [][\A r \in Requests :
          FailsNow(r) =>
              \E i \in 1 .. Len(store'[KeyOf(r)]) :
                  /\ store'[KeyOf(r)][i].type = "ai"
                  /\ store'[KeyOf(r)][i].req = r
                  /\ store'[KeyOf(r)][i].content = Concat(reqs'[r].body)]_vars

\* C6: when the stream runs to its end, the assistant message appended to the
\* history is the concatenation, in order, of the fragments relayed.
PersistedEqualsStreamed ==
    [][\A r \in Requests :
          CompletesNow(r) =>
              store'[KeyOf(r)] =
                  Append(store[KeyOf(r)], AIMessage(Concat(reqs'[r].body), r))]_vars

\* C6: a completed request with three fragments relayed and their
\* concatenation stored.
PersistedEqualsStreamedWitness ==
    \E r \in Requests :
        /\ reqs[r].state = "done" /\ ~reqs[r].failed
        /\ reqs[r].body = << <<"HEL">>, <<"LO: ">>, <<"hi">> >>
        /\ \E i \in 1 .. Len(store[KeyOf(r)]) :
              store[KeyOf(r)][i] = AIMessage(<<"HEL", "LO: ", "hi">>, r)

\* C7: while a reply streams, the Chatbot shows the earlier turns, the user's
\* message and the concatenation of the chunks received so far (nothing yet,
\* before the first chunk).
CumulativeRendering ==
    ui.pc = "streaming" =>
        ui.chat = SetLastReply(ui.local,
                      Concat(SubSeq(reqs[ui.req].body, 1, ui.read)))

\* C8: a DELETE that ran with no chat request on its session in flight leaves
\* the history of the session empty and the session unregistered, and changes
\* neither the other histories nor the other rows of the registry.
CascadeOnDelete ==
    [][ /\ ClearsNow =>
             /\ \A k \in SessionIds \ {del'.sid} : store'[k] = store[k]
             /\ sessions' = sessions
        /\ ReturnsNow =>
             /\ del.quiet => store'[del.sid] = <<>>
             /\ del.sid \notin sessions'
             /\ sessions' \cup {del.sid} = sessions \cup {del.sid}
             /\ \A k \in SessionIds \ {del.sid} : store'[k] = store[k]
      ]_vars

\* C8: a DELETE about to return for a registered session whose exchange was
\* cleared, while another session keeps its history.
CascadeOnDeleteWitness ==
    /\ del.pc = "cleared" /\ del.quiet
    /\ del.sid \in sessions
    /\ store[del.sid] = <<>>
    /\ \E r \in Requests : reqs[r].state = "done" /\ KeyOf(r) = del.sid
    /\ \E k \in SessionIds \ {del.sid} : store[k] # <<>>

\* C9: a DELETE answers "cleared" whether or not the session exists, and a
\* DELETE of a session that has no history and no row (never created, or
\* just deleted) changes nothing.
IdempotentDeletion ==
    [][ /\ ClearsNow =>
             (store[del'.sid] = <<>> => store' = store)
        /\ ReturnsNow =>
             /\ DeleteResponse(sessions, del.sid).status = 200
             /\ DeleteResponse(sessions, del.sid).body = "cleared"
             /\ DeleteResponse(sessions, del.sid).session_id = del.sid
             /\ (del.sid \notin sessions /\ store[del.sid] = <<>>)
                    => (sessions' = sessions /\ store' = store)
      ]_vars

\* C9: a second DELETE of a session that was created and deleted, about to
\* return.
IdempotentDeletionWitness ==
    /\ del.pc = "cleared"
    /\ del.sid \in issued
    /\ del.sid \notin sessions
    /\ store[del.sid] = <<>>

\* C10: every step keeps each history as a prefix of what it becomes, except
\* the clearing step of a DELETE of that session, which empties it.
AppendOnly ==
    [][\A k \in SessionIds :
          \/ IsPrefix(store[k], store'[k])
          \/ (ClearsNow /\ del'.sid = k /\ store'[k] = <<>>)]_vars

\* C10: a history that grew to four messages.
AppendOnlyWitness ==
    \E k \in SessionIds : Len(store[k]) = 4

\* The step of request r that starts its generator.
StartsNow(r) == reqs[r].state = "received" /\ reqs'[r].state = "streaming"

DeletedNow ==
    IF ReturnsNow THEN {del.sid}
    ELSE IF handle_session_deletion /\ ui'.delete_status = 200
         THEN {strip(ui.selected)}
    ELSE {}

\* C12: GET /sessions lists only identifiers POST /session has returned; a
\* step changes the list only by adding the identifier a create returns in
\* that step, which was never returned before, and by removing the identifier
\* of a DELETE that answers in that step.
SessionListExact ==
    [][ /\ ListResponse(sessions).status = 200
        /\ ListResponse(sessions).sessions \subseteq issued
        /\ issued \subseteq issued'
        /\ Cardinality(issued' \ issued) <= 1
        /\ (sessions' \ sessions) = (issued' \ issued)
        /\ (sessions \ sessions') \subseteq DeletedNow
        /\ DeletedNow \cap ListResponse(sessions').sessions = {}
      ]_vars

\* C12: two sessions created, both listed.
SessionListWitness ==
    /\ Cardinality(issued) = 2
    /\ ListResponse(sessions).sessions = issued

\* A fragment that is the diagnostic text of a provider failure.
IsDiagnostic(fragment) == "[ERROR] Provider failed: " \in Range(fragment)

\* C13: the step in which the provider raises adds to the body relayed so
\* far, which is the non-empty chunks produced, in order, exactly one
\* fragment, the diagnostic text with the kind and the message of the error;
\* the response is a 200 and nothing is relayed after it.
FailureEndsStream ==
    [][\A r \in Requests :
          /\ FailsNow(r) =>
               /\ reqs'[r].status = 200
               /\ Concat(reqs[r].body) = reqs[r].full_response
               /\ \A i \in 1 .. Len(reqs[r].body) :
                     /\ reqs[r].body[i] # <<>>
                     /\ reqs[r].body[i] \in Range(ProviderScript(reqs[r].user_msg))
                     /\ ~IsDiagnostic(reqs[r].body[i])
               /\ Len(reqs'[r].body) = Len(reqs[r].body) + 1
               /\ SubSeq(reqs'[r].body, 1, Len(reqs[r].body)) = reqs[r].body
               /\ IsDiagnostic(reqs'[r].body[Len(reqs'[r].body)])
               /\ \E e \in ProviderErrors :
                     {e.kind, e.message} \subseteq
                         Range(reqs'[r].body[Len(reqs'[r].body)])
          /\ (reqs[r].state = "done" /\ reqs[r].failed) => reqs'[r] = reqs[r]
      ]_vars

\* C13: a stream that failed after two fragments were relayed.
FailureEndsStreamWitness ==
    \E r \in Requests :
        /\ reqs[r].state = "done" /\ reqs[r].failed
        /\ Len(reqs[r].body) = 3
        /\ reqs[r].body[1] = <<"HEL">>
        /\ reqs[r].body[2] = <<"LO: ">>
        /\ IsDiagnostic(reqs[r].body[3])

\* The client has a session: its list of choices is not empty and the
\* dropdown's value is one of them.
HasSession(client) ==
    client.choices # <<>> /\ client.selected \in Range(client.choices)

\* C14: once init_sessions has returned the client has a session, whatever
\* handler returns or raises afterwards; when the list call fails at startup
\* the list is the placeholder alone, and when a deletion empties the list a
\* session is created and is the one selected.
ClientHasSession ==
    [][ /\ ui.loaded => HasSession(ui)
        /\ ui'.loaded => HasSession(ui')
        /\ (init_sessions /\ ~ui'.raised /\ ui'.list_status # 200)
               => /\ ui'.choices = <<DefaultSid>>
                  /\ ui'.selected = DefaultSid
        /\ (handle_new_chat_click /\ ~ui'.raised) => HasSession(ui')
        /\ ( /\ handle_session_deletion /\ ~ui'.raised
             /\ strip(ui.selected) # <<>>
             /\ Without(ui.choices, strip(ui.selected)) = <<>> )
               => \E new_sid \in issued' \ issued :
                     /\ new_sid \in sessions'
                     /\ ui'.choices = <<new_sid>>
                     /\ ui'.selected = new_sid
      ]_vars

\* C14: the list call failed at startup, the placeholder was deleted and the
\* session created in its place is the one selected.
ClientHasSessionWitness ==
    /\ ui.loaded /\ ~ui.raised
    /\ ui.list_status = 503
    /\ ui.status = "Deleted. Started a new chat."
    /\ ui.selected \in sessions
    /\ ui.choices = <<ui.selected>>

\* The contents of the user entries of a message log, in log order.
UserEntries(msgs) ==
    LET users == SelectSeq(msgs, LAMBDA m : m.role = "user")
    IN  [i \in 1 .. Len(users) |-> users[i].content]

\* The user sides of the turns that have one, in order.
UserSides(chat_pairs) ==
    LET with_user == SelectSeq(chat_pairs, LAMBDA turn : turn[1] # <<>>)
    IN  [i \in 1 .. Len(with_user) |-> with_user[i][1]]

\* C15: the turns load_chat_history derives from a log hold every user
\* message of the log exactly once, in log order.
EveryUserMessageInOneTurn ==
    \A k \in KnownIds :
        LET response == HistoryOut(store, k)
        IN  (ui.selected = k /\ ui.status = "Loaded")
                => /\ ui.chat = load_chat_history(k, response)
                   /\ UserSides(ui.chat) = UserEntries(response.messages)

\* C16: no handler of the client ends by an exception, whatever the backend
\* answers, and the client keeps a selected session.
HandlersNeverRaise ==
    /\ ~ui.raised
    /\ ui.loaded => HasSession(ui)

\* Request r has been accepted.
Accepted(r) == reqs[r].state \in {"received", "streaming", "done"}

\* The generator of request r takes a step.
GenSteps(r) ==
    /\ reqs[r].state \in {"received", "streaming"}
    /\ reqs'[r].state # reqs[r].state \/ reqs'[r].n # reqs[r].n

\* C17: a step of the generator of a request changes the history of no
\* session but its own, and a request that completes while every other
\* request is on another session, its session not deleted meanwhile, leaves
\* the history it would leave alone: its question, then its reply.
CrossSessionIsolation ==
    [][\A r \in Requests :
          /\ GenSteps(r) =>
               \A k \in SessionIds \ {KeyOf(r)} : store'[k] = store[k]
          /\ ( /\ CompletesNow(r) /\ ~reqs[r].wiped
               /\ \A other \in Requests \ {r} :
                     Accepted(other) => KeyOf(other) # KeyOf(r) )
               => store'[KeyOf(r)] =
                      << HumanMessage(reqs[r].user_msg, r),
                         AIMessage(Concat(reqs'[r].body), r) >>
      ]_vars

\* C17: an exchange completed on one session while an exchange on another
\* session is in the middle of its stream.
CrossSessionIsolationWitness ==
    \E r \in Requests, other \in Requests :
        /\ KeyOf(r) # KeyOf(other)
        /\ reqs[r].state = "done" /\ ~reqs[r].failed /\ ~reqs[r].wiped
        /\ Len(store[KeyOf(r)]) = 2
        /\ reqs[other].state = "streaming" /\ reqs[other].n = 2
        /\ r > other
        /\ store[KeyOf(other)] = <<HumanMessage(reqs[other].user_msg, other)>>

\* The positions of message m in the log.
Positions(log, m) == {i \in 1 .. Len(log) : log[i] = m}

\* C18: requests on one session are not serialized, yet a step of the
\* generator of a request only appends to the history, so that it removes no
\* message of another request; a request that completes, its session not
\* deleted meanwhile, has its question and its reply in the history once
\* each, the question first.
SameSessionNothingLost ==
    [][\A r \in Requests :
          /\ GenSteps(r) =>
               /\ IsPrefix(store[KeyOf(r)], store'[KeyOf(r)])
               /\ \A i \in (Len(store[KeyOf(r)]) + 1) .. Len(store'[KeyOf(r)]) :
                     store'[KeyOf(r)][i].req = r
          /\ (CompletesNow(r) /\ ~reqs[r].wiped) =>
               \E i, j \in 1 .. Len(store'[KeyOf(r)]) :
                  /\ i < j
                  /\ Positions(store'[KeyOf(r)],
                               HumanMessage(reqs[r].user_msg, r)) = {i}
                  /\ Positions(store'[KeyOf(r)],
                               AIMessage(reqs[r].full_response, r)) = {j}
      ]_vars

\* C18: the history of a session after two concurrent requests on it: both
\* questions, then both replies.
SameSessionInterleavedWitness ==
    \E k \in SessionIds :
        /\ Len(store[k]) = 4
        /\ store[k][1].type = "human" /\ store[k][2].type = "human"
        /\ store[k][3].type = "ai" /\ store[k][4].type = "ai"
        /\ store[k][1].req # store[k][2].req
        /\ store[k][3].req = store[k][1].req
        /\ store[k][4].req = store[k][2].req

\* The messages of request r in a log.
MessagesOf(r, log) == SelectSeq(log, LAMBDA m : m.req = r)

\* C19: a request goes from received to streaming to done and stays there,
\* and no message of a request is appended to a history before the stream of
\* the request has ended.
PersistsAfterStream ==
    [][\A r \in Requests :
          /\ reqs[r].state = "received" => reqs'[r].state \in {"received", "streaming"}
          /\ reqs[r].state = "streaming" => reqs'[r].state \in {"streaming", "done"}
          /\ reqs[r].state = "done" => reqs'[r].state = "done"
          /\ \A k \in SessionIds :
                Len(MessagesOf(r, store'[k])) > Len(MessagesOf(r, store[k]))
                    => reqs'[r].state = "done"
      ]_vars

\* C20: the handler of POST /chat and the steps of its generator leave the
\* registry as it is, as do the two reads; a step changes the registry only
\* if it is a create or the return of a DELETE; a create changes no history.
RegistryFrame ==
    [][ /\ nreq' # nreq => (sessions' = sessions /\ issued' = issued)
        /\ \A r \in Requests :
              GenSteps(r) => (sessions' = sessions /\ issued' = issued)
        /\ ListResponse(sessions').sessions # ListResponse(sessions).sessions
              => (issued' # issued \/ ReturnsNow)
        /\ issued' # issued => store' = store
        /\ store' # store
              => /\ ListResponse(sessions').sessions = ListResponse(sessions).sessions
                 /\ \A k \in KnownIds :
                       HistoryOut(store', k) # HistoryOut(store, k)
                           => (\E r \in Requests : GenSteps(r) /\ KeyOf(r) = k)
                              \/ (ClearsNow /\ del'.sid = k)
      ]_vars

\* C20: an exchange completed on an identifier that is not registered, its
\* history kept and the identifier not listed, after a session was created.
RegistryFrameWitness ==
    \E r \in Requests :
        /\ reqs[r].state = "done" /\ ~reqs[r].failed
        /\ Len(HistoryOut(store, KeyOf(r)).messages) = 2
        /\ KeyOf(r) \notin ListResponse(sessions).sessions
        /\ ListResponse(sessions).sessions # {}

\* C21: once a DELETE of a session has returned, a request that was streaming
\* on that session when its history was cleared appends nothing to it.
DeletedStaysEmpty ==
    [][\A r \in Requests :
          (GenSteps(r) /\ reqs[r].wiped /\ del.pc = "idle")
              => store'[KeyOf(r)] = store[KeyOf(r)]]_vars

====
